---- MODULE Spec2Model ----
(***************************************************************************)
(* Model of the rigid_body crate (src/src/lib.rs): the RigidBody state,    *)
(* the kick-drift-kick integrators update_linear / update_angular /        *)
(* update, and the attitude composition primitive angular.                 *)
(*                                                                         *)
(* Numbers.  The crate is generic over T: Float.  A scalar is modelled as  *)
(* a normalised rational <<n, d>> (d > 0, gcd(n, d) = 1).  Every           *)
(* arithmetic operation of the code rounds its exact result into T with    *)
(* Fl(x, T): T = 0 stands for exact real arithmetic (no rounding), T = p   *)
(* > 0 for a binary floating-point type with a p-bit significand, round    *)
(* to nearest, ties to even, unbounded exponent.                           *)
(*                                                                         *)
(* Angles.  The magnitude of an attitude is measured in quarter turns, so  *)
(* that cos and sin of every integral magnitude are exact (0, 1 or -1).    *)
(* The magnitude formula of angular is linear in the magnitudes, so the    *)
(* choice of unit does not change it.                                      *)
(***************************************************************************)
EXTENDS Integers, Sequences, FiniteSets, TLC

VARIABLES
    T,                              \* the numeric type parameter (significand bits, 0 = exact)
    pos, vel, acc, ori, tor, wre,   \* the fields of the RigidBody
    init,                           \* the body as constructed by the caller
    log,                            \* the calls made so far: [op, dt, pre, exact]
    in_a, in_b, in_t, ret, called   \* one call of the free function angular: arguments, result

vars == <<T, pos, vel, acc, ori, tor, wre, init, log, in_a, in_b, in_t, ret, called>>

----------------------------------------------------------------------------
(* Bounds of the model *)

MaxMag == 1          \* magnitudes and linear components range over -MaxMag..MaxMag
MaxDt == 1           \* time arguments range over -MaxDt..MaxDt
MaxSteps == 2        \* calls made on one body
ScenarioSteps == 5   \* calls made on the end-to-end scenario body
Mantissa == 3        \* significand bits of the rounded numeric type

----------------------------------------------------------------------------
(* Exact rationals *)

Abs(x) == IF x < 0 THEN -x ELSE x

RECURSIVE GCD(_, _)
GCD(x, y) == IF y = 0 THEN x ELSE GCD(y, x % y)

Norm(n, d) == LET g == GCD(Abs(n), d) IN <<n \div g, d \div g>>

R(n) == <<n, 1>>
Q(n, d) == Norm(n, d)

RAdd(x, y) == Norm(x[1] * y[2] + y[1] * x[2], x[2] * y[2])
RNeg(x) == <<-x[1], x[2]>>
RSub(x, y) == RAdd(x, RNeg(y))
RMul(x, y) == Norm(x[1] * y[1], x[2] * y[2])
IsInt(x) == x[2] = 1

RECURSIVE Pow2(_)
Pow2(k) == IF k = 0 THEN 1 ELSE 2 * Pow2(k - 1)

----------------------------------------------------------------------------
(* Rounding into the numeric type T *)

\* The binary exponent e with 2^(p-1) <= n/d * 2^(-e) < 2^p, for n, d > 0.
RECURSIVE ExpOf(_, _, _)
ExpOf(n, d, p) ==
    IF n >= Pow2(p) * d THEN ExpOf(n, 2 * d, p) + 1
    ELSE IF n < Pow2(p - 1) * d THEN ExpOf(2 * n, d, p) - 1
    ELSE 0

\* n/d (n >= 0, d > 0) rounded to the nearest integer, ties to even.
RoundHalfEven(n, d) ==
    LET f == n \div d
        r == n % d
    IN  IF 2 * r < d THEN f
        ELSE IF 2 * r > d THEN f + 1
        ELSE IF f % 2 = 0 THEN f ELSE f + 1

\* x rounded to a p-bit significand.
Round(x, p) ==
    IF x[1] = 0 THEN x
    ELSE LET n == Abs(x[1])
             d == x[2]
             e == ExpOf(n, d, p)
             m == IF e >= 0 THEN RoundHalfEven(n, d * Pow2(e))
                  ELSE RoundHalfEven(n * Pow2(-e), d)
             s == IF x[1] < 0 THEN -1 ELSE 1
         IN  IF e >= 0 THEN Norm(s * m * Pow2(e), 1) ELSE Norm(s * m, Pow2(-e))

Fl(x, p) == IF p = 0 THEN x ELSE Round(x, p)

----------------------------------------------------------------------------
(* The operations of vecmath::traits::Float that the crate uses *)

add(x, y, p) == Fl(RAdd(x, y), p)
sub(x, y, p) == Fl(RSub(x, y), p)
mul(x, y, p) == Fl(RMul(x, y), p)
one == R(1)
from_f64_half == Q(1, 2)

\* cos and sin of a magnitude given in quarter turns.
cos(x) == CASE IsInt(x) /\ x[1] % 4 = 0 -> R(1)
            [] IsInt(x) /\ x[1] % 4 = 1 -> R(0)
            [] IsInt(x) /\ x[1] % 4 = 2 -> R(-1)
            [] IsInt(x) /\ x[1] % 4 = 3 -> R(0)

sin(x) == CASE IsInt(x) /\ x[1] % 4 = 0 -> R(0)
            [] IsInt(x) /\ x[1] % 4 = 1 -> R(1)
            [] IsInt(x) /\ x[1] % 4 = 2 -> R(0)
            [] IsInt(x) /\ x[1] % 4 = 3 -> R(-1)

----------------------------------------------------------------------------
(* The vecmath functions the crate imports *)

vec3_add(x, y, p) == <<add(x[1], y[1], p), add(x[2], y[2], p), add(x[3], y[3], p)>>

vec3_scale(x, s, p) == <<mul(x[1], s, p), mul(x[2], s, p), mul(x[3], s, p)>>

vec3_dot(x, y, p) ==
    add(add(mul(x[1], y[1], p), mul(x[2], y[2], p), p), mul(x[3], y[3], p), p)

vec3_cross(x, y, p) ==
    << sub(mul(x[2], y[3], p), mul(x[3], y[2], p), p),
       sub(mul(x[3], y[1], p), mul(x[1], y[3], p), p),
       sub(mul(x[1], y[2], p), mul(x[2], y[1], p), p) >>

----------------------------------------------------------------------------
(* src/src/lib.rs *)

\* An Attitude is <<magnitude, vector>>.
Attitude(m, v) == <<m, v>>

\* angular with the rate's magnitude left out of the magnitude correction.
angular_no_rate(a, b, t, p) ==
    LET angle == add(a[1], mul(vec3_dot(a[2], b[2], p), t, p), p)
        c == cos(b[1])
        s == sin(b[1])
        axis == vec3_add(vec3_scale(a[2], c, p),
                         vec3_add(vec3_scale(vec3_cross(b[2], a[2], p), s, p),
                                  vec3_scale(b[2], mul(vec3_dot(b[2], a[2], p),
                                                       sub(one, c, p), p), p),
                                  p),
                         p)
    IN  <<angle, axis>>

\* angular with the axis-parallel term of the rotation formula left out.
angular_no_parallel(a, b, t, p) ==
    LET angle == add(a[1], mul(mul(vec3_dot(a[2], b[2], p), b[1], p), t, p), p)
        c == cos(b[1])
        s == sin(b[1])
        axis == vec3_add(vec3_scale(a[2], c, p),
                         vec3_scale(vec3_cross(b[2], a[2], p), s, p), p)
    IN  <<angle, axis>>

\* pub fn angular(a, b, t)
angular(a, b, t, p) ==
    LET angle == add(a[1], mul(mul(vec3_dot(a[2], b[2], p), b[1], p), t, p), p)
        c == cos(b[1])
        s == sin(b[1])
        axis == vec3_add(vec3_scale(a[2], c, p),
                         vec3_add(vec3_scale(vec3_cross(b[2], a[2], p), s, p),
                                  vec3_scale(b[2], mul(vec3_dot(b[2], a[2], p),
                                                       sub(one, c, p), p), p),
                                  p),
                         p)
    IN  Attitude(angle, axis)

\* update_linear as a full kick followed by the drift (no half steps).
update_linear_euler(self, dt, p) ==
    LET s1 == [self EXCEPT !.vel = vec3_add(self.vel, vec3_scale(self.acc, dt, p), p)]
        s2 == [s1 EXCEPT !.pos = vec3_add(s1.pos, vec3_scale(s1.vel, dt, p), p)]
    IN  s2

\* update_linear with the second half-kick using the negated half step.
update_linear_unkick(self, dt, p) ==
    LET half_dt == mul(from_f64_half, dt, p)
        s1 == [self EXCEPT !.vel = vec3_add(self.vel, vec3_scale(self.acc, half_dt, p), p)]
        s2 == [s1 EXCEPT !.pos = vec3_add(s1.pos, vec3_scale(s1.vel, dt, p), p)]
        s3 == [s2 EXCEPT !.vel = vec3_add(s2.vel, vec3_scale(s2.acc, RNeg(half_dt), p), p)]
    IN  s3

\* update_linear that also consumes the acceleration it has applied.
update_linear_clear_acc(self, dt, p) ==
    LET half_dt == mul(from_f64_half, dt, p)
        s1 == [self EXCEPT !.vel = vec3_add(self.vel, vec3_scale(self.acc, half_dt, p), p)]
        s2 == [s1 EXCEPT !.pos = vec3_add(s1.pos, vec3_scale(s1.vel, dt, p), p)]
        s3 == [s2 EXCEPT !.vel = vec3_add(s2.vel, vec3_scale(s2.acc, half_dt, p), p)]
    IN  [s3 EXCEPT !.acc = <<R(0), R(0), R(0)>>]

\* RigidBody::update_linear(&mut self, dt)
update_linear(self, dt, p) ==
    LET half_dt == mul(from_f64_half, dt, p)
        s1 == [self EXCEPT !.vel = vec3_add(self.vel, vec3_scale(self.acc, half_dt, p), p)]
        s2 == [s1 EXCEPT !.pos = vec3_add(s1.pos, vec3_scale(s1.vel, dt, p), p)]
        s3 == [s2 EXCEPT !.vel = vec3_add(s2.vel, vec3_scale(s2.acc, half_dt, p), p)]
    IN  s3

\* RigidBody::update_angular(&mut self, dt)
update_angular(self, dt, p) ==
    LET half_dt == mul(from_f64_half, dt, p)
        tor1 == angular(self.tor, self.wre, half_dt, p)
        ori1 == angular(self.ori, tor1, dt, p)
        tor2 == angular(tor1, self.wre, half_dt, p)
    IN  [self EXCEPT !.tor = tor2, !.ori = ori1]

\* update that hands update_angular the negated step.
update_negated_angular(self, dt, p) ==
    update_angular(update_linear(self, dt, p), RNeg(dt), p)

\* RigidBody::update(&mut self, dt)
update(self, dt, p) == update_angular(update_linear(self, dt, p), dt, p)

\* The intermediate results of update_linear, in the order the code computes them.
LinearTrace(self, dt, p) ==
    LET half_dt == mul(from_f64_half, dt, p)
        k == vec3_scale(self.acc, half_dt, p)
        v1 == vec3_add(self.vel, k, p)
        d == vec3_scale(v1, dt, p)
        p1 == vec3_add(self.pos, d, p)
        v2 == vec3_add(v1, k, p)
    IN  <<half_dt, k, v1, d, p1, v2>>

\* No operation of update_linear(self, dt) rounds its result in the type p.
LinearExact(self, dt, p) == LinearTrace(self, dt, p) = LinearTrace(self, dt, 0)

----------------------------------------------------------------------------
(* The state machine *)

RigidBody(ps, vl, ac, o, tq, w) ==
    [pos |-> ps, vel |-> vl, acc |-> ac, ori |-> o, tor |-> tq, wre |-> w]

Self == RigidBody(pos, vel, acc, ori, tor, wre)

V(x, y, z) == <<R(x), R(y), R(z)>>
Zero3 == V(0, 0, 0)

Assign(self) ==
    /\ pos' = self.pos
    /\ vel' = self.vel
    /\ acc' = self.acc
    /\ ori' = self.ori
    /\ tor' = self.tor
    /\ wre' = self.wre

\* The call is appended to the history with the body it found; exact records
\* that no arithmetic operation of the call rounded its result.
Call(op, dt, exact) ==
    log' = Append(log, [op |-> op, dt |-> dt, pre |-> Self, exact |-> exact])

AngularIdle ==
    /\ in_a = Attitude(R(0), Zero3)
    /\ in_b = Attitude(R(0), Zero3)
    /\ in_t = R(0)
    /\ ret = Attitude(R(0), Zero3)
    /\ called = FALSE

\* The state after construction with the fields of self.
Construct(self) ==
    /\ pos = self.pos
    /\ vel = self.vel
    /\ acc = self.acc
    /\ ori = self.ori
    /\ tor = self.tor
    /\ wre = self.wre
    /\ init = self
    /\ log = <<>>

BodyIdle ==
    Construct(RigidBody(Zero3, Zero3, Zero3, Attitude(R(0), Zero3),
                        Attitude(R(0), Zero3), Attitude(R(0), Zero3)))

MagSet == -MaxMag .. MaxMag
Dts == {R(-1), R(0), R(1)}

DoUpdateLinear(dt) ==
    /\ Assign(update_linear(Self, dt, T))
    /\ Call("update_linear", dt, LinearExact(Self, dt, T))
    /\ UNCHANGED <<T, init, in_a, in_b, in_t, ret, called>>

DoUpdateAngular(dt) ==
    /\ Assign(update_angular(Self, dt, T))
    /\ Call("update_angular", dt, T = 0)
    /\ UNCHANGED <<T, init, in_a, in_b, in_t, ret, called>>

DoUpdate(dt) ==
    /\ Assign(update(Self, dt, T))
    /\ Call("update", dt, T = 0)
    /\ UNCHANGED <<T, init, in_a, in_b, in_t, ret, called>>

----------------------------------------------------------------------------
(* Spec: bodies in exact arithmetic, all three operations *)

UpdateLinear(dt) == Len(log) < MaxSteps /\ DoUpdateLinear(dt)
UpdateAngular(dt) == Len(log) < MaxSteps /\ DoUpdateAngular(dt)
Update(dt) == Len(log) < MaxSteps /\ DoUpdate(dt)

InitLinear ==
    { <<V(0, 0, 0), V(1, 0, -1), V(0, -1, 2)>>,
      <<V(1, -2, 3), V(0, 2, 1), V(1, 1, -1)>> }

\* wre's magnitude is even, so that every magnitude stays a whole number of
\* quarter turns under the half steps.
Init ==
    /\ T = 0
    /\ \E l \in InitLinear : pos = l[1] /\ vel = l[2] /\ acc = l[3]
    /\ ori = Attitude(R(1), V(0, 0, 1))
    /\ \E m \in MagSet : tor = Attitude(R(m), V(1, 1, 0))
    /\ \E m \in MagSet, v \in {V(0, 0, 1), V(1, 0, -1)} : wre = Attitude(R(2 * m), v)
    /\ init = Self
    /\ log = <<>>
    /\ AngularIdle

Next ==
    \/ \E dt \in Dts : UpdateLinear(dt)
    \/ \E dt \in Dts : UpdateAngular(dt)
    \/ \E dt \in Dts : Update(dt)

Spec == Init /\ [][Next]_vars

----------------------------------------------------------------------------
(* SpecLinear: update_linear alone, in exact and in rounded arithmetic *)

LinScal == {R(m) : m \in MagSet} \cup {R(Pow2(Mantissa))}
LinDts == {R(n) : n \in -MaxDt .. MaxDt} \cup {Q(-1, 2), Q(1, 2)}

InitLinearOnly ==
    /\ T \in {0, Mantissa}
    /\ \E x \in {R(0), R(1)} : pos = <<x, R(1), Q(1, 2)>>
    /\ \E y \in LinScal : vel = <<y, R(-1), R(0)>>
    /\ \E z \in LinScal : acc = <<z, Q(1, 2), R(-1)>>
    /\ ori = Attitude(R(0), Zero3)
    /\ tor = Attitude(R(0), Zero3)
    /\ wre = Attitude(R(0), Zero3)
    /\ init = Self
    /\ log = <<>>
    /\ AngularIdle

LinearStep(dt) == Len(log) < MaxSteps /\ DoUpdateLinear(dt)

NextLinear == \E dt \in LinDts : LinearStep(dt)

SpecLinear == InitLinearOnly /\ [][NextLinear]_vars

----------------------------------------------------------------------------
(* SpecAngular: one call of the free function angular *)

Vec3s == {V(x, y, z) : x, y, z \in -1 .. 1}
             \cup {<<Q(3, 5), Q(4, 5), R(0)>>, V(2, 0, -1)}
Halves == {Q(n, 2) : n \in -2 * MaxDt .. 2 * MaxDt}

InitAngular ==
    /\ T = 0
    /\ \E m \in {R(0), R(-1)}, v \in Vec3s : in_a = Attitude(m, v)
    /\ \E m \in -(MaxMag + 1) .. (MaxMag + 1), v \in Vec3s : in_b = Attitude(R(m), v)
    /\ in_t \in Halves
    /\ ret = Attitude(R(0), Zero3)
    /\ called = FALSE
    /\ BodyIdle

CallAngular ==
    /\ ~called
    /\ ret' = angular(in_a, in_b, in_t, T)
    /\ called' = TRUE
    /\ UNCHANGED <<T, pos, vel, acc, ori, tor, wre, init, log, in_a, in_b, in_t>>

NextAngular == CallAngular

SpecAngular == InitAngular /\ [][NextAngular]_vars

----------------------------------------------------------------------------
(* SpecScenario: the end-to-end scenario body, stepped with dt = 0.1 *)

ScenarioDt == Q(1, 10)

ScenarioBody ==
    RigidBody(V(0, 0, 0), V(1, 0, 0), <<R(0), Q(-98, 10), R(0)>>,
              Attitude(R(0), V(0, 0, 1)), Attitude(R(0), Zero3), Attitude(R(0), Zero3))

InitScenario ==
    /\ T = 0
    /\ Construct(ScenarioBody)
    /\ AngularIdle

ScenarioLinear == Len(log) < ScenarioSteps /\ DoUpdateLinear(ScenarioDt)
ScenarioAngular == Len(log) < ScenarioSteps /\ DoUpdateAngular(ScenarioDt)
ScenarioUpdate == Len(log) < ScenarioSteps /\ DoUpdate(ScenarioDt)

NextScenario == ScenarioLinear \/ ScenarioAngular \/ ScenarioUpdate

SpecScenario == InitScenario /\ [][NextScenario]_vars

----------------------------------------------------------------------------
(* Vocabulary of the properties: exact (unrounded) vector arithmetic *)

XAdd(x, y) == <<RAdd(x[1], y[1]), RAdd(x[2], y[2]), RAdd(x[3], y[3])>>
XScale(x, s) == <<RMul(x[1], s), RMul(x[2], s), RMul(x[3], s)>>
XDot(x, y) == RAdd(RAdd(RMul(x[1], y[1]), RMul(x[2], y[2])), RMul(x[3], y[3]))
XCross(x, y) ==
    << RSub(RMul(x[2], y[3]), RMul(x[3], y[2])),
       RSub(RMul(x[3], y[1]), RMul(x[1], y[3])),
       RSub(RMul(x[1], y[2]), RMul(x[2], y[1])) >>

\* Rodrigues' rotation of v about axis k by theta (quarter turns).
Rodrigues(v, k, theta) ==
    XAdd(XScale(v, cos(theta)),
         XAdd(XScale(XCross(k, v), sin(theta)),
              XScale(k, RMul(XDot(k, v), RSub(R(1), cos(theta))))))

\* x0 + v*s + acc*s^2/2
Travel(x0, v, ac, s) ==
    XAdd(x0, XAdd(XScale(v, s), XScale(ac, RMul(RMul(s, s), Q(1, 2)))))

\* The body after the i-th logged call.
Post(i) == IF i < Len(log) THEN log[i + 1].pre ELSE Self

RECURSIVE SumDt(_)
SumDt(i) == IF i = 0 THEN R(0) ELSE RAdd(SumDt(i - 1), log[i].dt)

AllExact == \A i \in 1 .. Len(log) : log[i].exact

----------------------------------------------------------------------------
(* angular *)

\* C1: angular(a, b, 0) returns a, in magnitude and in vector, for every a and
\* b (b's magnitude zero or not).
C1_AngularAtZero ==
    (called /\ in_t = R(0)) => ret = in_a

\* C2: the vector returned by angular(a, b, t) is the Rodrigues rotation of
\* a.vector about b.vector by theta = b.magnitude * t (stated where theta is a
\* whole number of quarter turns).
C2_RodriguesByRateTimesT ==
    (called /\ IsInt(RMul(in_b[1], in_t)))
        => ret[2] = Rodrigues(in_a[2], in_b[2], RMul(in_b[1], in_t))

\* C5: with a zero-magnitude rate, angular(a, (0, v), t) returns a unchanged,
\* for every a, every v (zero or non-unit too) and every t.
C5_ZeroRateIdentity ==
    (called /\ in_b[1] = R(0)) => ret = in_a

C5_Witness ==
    /\ called
    /\ in_b = Attitude(R(0), V(2, 0, -1))
    /\ in_a = Attitude(R(-1), V(1, 1, 0))
    /\ in_t = Q(-1, 2)
    /\ ret = in_a

\* C6: when a.vector and b.vector are the same unit vector, angular(a, b, t)
\* has magnitude a.magnitude + b.magnitude * t and vector a.vector.
C6_ParallelAxisAdditivity ==
    (called /\ in_a[2] = in_b[2] /\ XDot(in_a[2], in_a[2]) = R(1))
        => /\ ret[1] = RAdd(in_a[1], RMul(in_b[1], in_t))
           /\ ret[2] = in_a[2]

C6_Witness ==
    /\ called
    /\ in_a = Attitude(R(-1), <<Q(3, 5), Q(4, 5), R(0)>>)
    /\ in_b = Attitude(R(1), <<Q(3, 5), Q(4, 5), R(0)>>)
    /\ in_t = Q(1, 2)
    /\ ret = Attitude(Q(-1, 2), <<Q(3, 5), Q(4, 5), R(0)>>)

----------------------------------------------------------------------------
(* update_linear *)

\* C3: one call update_linear(dt) leaves vel = vel0 + acc*dt and
\* pos = pos0 + vel0*dt + acc*dt^2/2, in exact arithmetic (no operation of
\* the call rounds its result).
C3_ConstantAccelerationExact ==
    \A i \in 1 .. Len(log) :
        (log[i].op = "update_linear" /\ log[i].exact)
            => /\ Post(i).vel = XAdd(log[i].pre.vel, XScale(log[i].pre.acc, log[i].dt))
               /\ Post(i).pos = Travel(log[i].pre.pos, log[i].pre.vel,
                                       log[i].pre.acc, log[i].dt)

C3_Witness ==
    /\ T = 0
    /\ Len(log) = 1
    /\ log[1].op = "update_linear"
    /\ log[1].dt = Q(-1, 2)
    /\ log[1].pre.acc[1] = R(1)
    /\ log[1].pre.vel[1] = R(-1)
    /\ vel[1] = Q(-3, 2)
    /\ pos[1] = RAdd(log[1].pre.pos[1], Q(5, 8))

\* C4 as stated: update_linear(dt) then update_linear(-dt) restores pos and
\* vel exactly, for every pos, vel, acc and dt.
C4_TimeSymmetryExactly ==
    \A i \in 1 .. Len(log) - 1 :
        log[i + 1].dt = RNeg(log[i].dt)
            => /\ Post(i + 1).pos = log[i].pre.pos
               /\ Post(i + 1).vel = log[i].pre.vel

\* C4 as amended: update_linear(dt) then update_linear(-dt) restores pos and
\* vel exactly whenever no operation of the two calls rounds its result.
C4_TimeSymmetryUnrounded ==
    \A i \in 1 .. Len(log) - 1 :
        (log[i + 1].dt = RNeg(log[i].dt) /\ log[i].exact /\ log[i + 1].exact)
            => /\ Post(i + 1).pos = log[i].pre.pos
               /\ Post(i + 1).vel = log[i].pre.vel

C4_Witness ==
    /\ T = Mantissa
    /\ Len(log) = 2
    /\ log[1].dt = R(1)
    /\ log[2].dt = R(-1)
    /\ log[1].exact /\ log[2].exact
    /\ init.acc[1] = R(1)
    /\ init.vel[1] = R(-1)
    /\ log[2].pre.pos # init.pos
    /\ pos = init.pos /\ vel = init.vel

----------------------------------------------------------------------------
(* update, update_angular and the frame *)

\* C7: after update(dt), pos and vel are those of update_linear(dt) alone,
\* ori and tor those of update_angular(dt) alone, and update_angular(dt)
\* followed by update_linear(dt) gives the same body.
C7_UpdateUncoupled ==
    \A i \in 1 .. Len(log) :
        log[i].op = "update"
            => LET pre == log[i].pre
                   dt == log[i].dt
                   lin == update_linear(pre, dt, T)
                   ang == update_angular(pre, dt, T)
               IN  /\ Post(i).pos = lin.pos
                   /\ Post(i).vel = lin.vel
                   /\ Post(i).ori = ang.ori
                   /\ Post(i).tor = ang.tor
                   /\ Post(i) = update_linear(ang, dt, T)

C7_Witness ==
    /\ Len(log) = 1
    /\ log[1].op = "update"
    /\ log[1].dt = R(1)
    /\ pos # init.pos
    /\ vel # init.vel
    /\ ori # init.ori
    /\ tor # init.tor

\* C8: update_linear leaves acc, ori, tor and wre unchanged, update_angular
\* leaves wre, pos, vel and acc unchanged, and no sequence of calls changes
\* acc or wre.
C8_Frame ==
    /\ acc = init.acc
    /\ wre = init.wre
    /\ \A i \in 1 .. Len(log) :
        /\ log[i].op = "update_linear"
            => /\ Post(i).acc = log[i].pre.acc
               /\ Post(i).ori = log[i].pre.ori
               /\ Post(i).tor = log[i].pre.tor
               /\ Post(i).wre = log[i].pre.wre
        /\ log[i].op = "update_angular"
            => /\ Post(i).wre = log[i].pre.wre
               /\ Post(i).pos = log[i].pre.pos
               /\ Post(i).vel = log[i].pre.vel
               /\ Post(i).acc = log[i].pre.acc

C8_Witness ==
    /\ Len(log) = 2
    /\ log[1].op = "update_linear"
    /\ log[2].op = "update_angular"
    /\ log[2].pre.pos # init.pos
    /\ log[2].pre.vel # init.vel
    /\ ori # init.ori
    /\ tor # init.tor
    /\ acc # Zero3
    /\ wre[1] # R(0)

\* C9: the scenario body after one update(0.1) has vel = (1, -0.98, 0),
\* pos = (0.1, -0.049, 0), and ori and tor as constructed.
C9_Scenario ==
    (Len(log) >= 1 /\ log[1].op = "update")
        => /\ Post(1).vel = <<R(1), Q(-98, 100), R(0)>>
           /\ Post(1).pos = <<Q(1, 10), Q(-49, 1000), R(0)>>
           /\ Post(1).ori = init.ori
           /\ Post(1).tor = init.tor

C9_Witness ==
    /\ Len(log) = 1
    /\ log[1].op = "update"
    /\ log[1].dt = Q(1, 10)
    /\ init = ScenarioBody
    /\ vel[2] = Q(-49, 50)
    /\ pos[2] = Q(-49, 1000)

====
